---- MODULE Spec2Model ----
(***************************************************************************)
(* Model of the Atelier drawing application: the Canvas component          *)
(* (components/Canvas.tsx) with its surface, pointer session and           *)
(* imperative handle, and the App component's configuration state and      *)
(* start-up load of the persisted artwork list (App.tsx).                  *)
(*                                                                         *)
(* React scheduling: a commit attaches refs and the imperative handle;     *)
(* the passive effects (useEffect) of that commit run later, as one        *)
(* batch, and browser events may be handled in between.  No handler reads  *)
(* a state update before it is rendered, so setCanvasSize and the render   *)
(* and commit it causes are one step.                                      *)
(*                                                                         *)
(* Lengths are in grid cells: one cell stands for a block of logical       *)
(* pixels, and the raster buffer is kept per physical cell.                *)
(*                                                                         *)
(* Five specifications share the state:                                   *)
(*   Spec       the Canvas with its pointer session, handle and resizes,   *)
(*              and the App configuration; a paint function is one step    *)
(*              that paints the cell of its point;                         *)
(*   SpecPaint  drawSplatter and drawDrip statement by statement, with     *)
(*              their random numbers in floating-point arithmetic;         *)
(*   SpecApp    the App start-up and its saving and deleting of artworks;  *)
(*   SpecToolbar  the clear button of the Toolbar with its timers;         *)
(*   SpecGallery  the delete buttons of the Gallery with their timers.     *)
(***************************************************************************)
EXTENDS Integers, Sequences, FiniteSets, TLC

\* ----- bounds of the model ------------------------------------------------
MaxWidth == 2       \* largest measured container width, in cells
MaxArtworks == 3    \* largest number of artworks kept in the gallery
MaxTimers == 2      \* largest number of pending timers

\* ----- program constants --------------------------------------------------
Multiplier == 2                 \* device-pixel multiplier of the surface
Background == "#1a1a1a"         \* background fill colour
Transparent == "transparent"    \* a freshly allocated bitmap
NULL == [null |-> TRUE]

Tools == {"brush", "splatter", "drip"}
Colors == {"#e63946", "#457b9d"}        \* two entries of the palette
BrushSizes == {4, 12}                   \* two positions of the size slider
SplatterThreshold == 70                 \* Math.random() > 0.7, in hundredths
DripThreshold == 90                     \* Math.random() > 0.9, in hundredths
Randoms == {70, 90, 91}                 \* outcomes of Math.random(), hundredths

\* measured container heights, in cells: the surface is one row of cells
Heights == {1}
MaxHeight == CHOOSE h \in Heights : \A k \in Heights : k <= h

\* useState({ width: 800, height: 600 }): the largest size of the grid
InitialCanvasSize == [width |-> MaxWidth, height |-> MaxHeight]
\* a canvas element is created 300 x 150 with the identity transform
NewCanvas ==
  [width |-> 1, height |-> 1, style |-> NULL, scale |-> 1,
   pixels |-> [p \in (0..0) \X (0..0) |-> Transparent]]

\* the bounding rectangle of the canvas on screen
Rect == [left |-> 1, top |-> 1]
StartTypes == {"mousedown", "touchstart"}
MoveTypes == {"mousemove", "touchmove"}
EndTypes == {"mouseup", "mouseleave", "touchend"}
\* pointer events carry client coordinates; a touch event carries them in
\* touches[0].  The pointer visits the first two columns of cells.
ClientXs == {Rect.left, Rect.left + 1}
ClientYs == Rect.top .. (Rect.top + MaxHeight - 1)

VARIABLES
  canvasSize,     \* Canvas state: committed { width, height }
  effects,        \* passive effects of the last commit still to run:
                  \* "mount", "setup" or "none"
  canvasRef,      \* canvasRef.current: NULL or the attached canvas element
  canvas,         \* the canvas element: buffer size, style, transform, pixels
  contextRef,     \* contextRef.current: NULL or the 2d context
  isDrawing,      \* isDrawing.current
  lastPoint,      \* lastPoint.current: NULL or a point
  color, tool, brushSize,   \* App state handed down as props
  stored,         \* localStorage slot 'artworks': NULL or [text |-> characters]
  savedArtworks,  \* App state: list of payloads
  isLoaded,       \* App state
  crashed,        \* an uncaught exception has unmounted the tree
  event,          \* the event or call handled by the last step, with the
                  \* coordinates when the handler read them
  calls,          \* draw calls dispatched by the last step
  result,         \* value returned by the last save()
  prevSample,     \* point of the previous event of the running session
  configChanged,  \* color or brushSize was changed during the running session
  pressed,        \* pointers whose interaction with the surface has started
                  \* and not ended: a subset of {"mouse", "touch"}
  frame,          \* activation of a paint function run step by step (its
                  \* locals), NULL while none is
  showClearConfirm,   \* Toolbar state
  deleteConfirm,      \* Gallery state: NULL or [index |-> i]
  timers,         \* pending setTimeout callbacks, oldest first, each with
                  \* the seconds left until it is due
  armedFor,       \* NULL, or [ticks |-> seconds since the click that armed
                  \* the clear confirmation]
  prevClick       \* NULL, or the index of the previous delete click and
                  \* the list it was made on

vars == <<canvasSize, effects, canvasRef, canvas, contextRef, isDrawing,
          lastPoint, color, tool, brushSize, stored, savedArtworks, isLoaded,
          crashed, event, calls, result, prevSample, configChanged, pressed,
          frame, showClearConfirm, deleteConfirm, timers, armedFor, prevClick>>

\* state of the Toolbar and Gallery components and of the timer queue
uiVars == <<showClearConfirm, deleteConfirm, timers, armedFor, prevClick>>

NoResult == [none |-> TRUE]

\* ----- raster operations --------------------------------------------------
Cells(w, h) == (0..(w - 1)) \X (0..(h - 1))

\* whether the logical cell c covers the physical cell p under transform
\* scale s
Covers(s, c, p) ==
  /\ s * c.x <= p[1] /\ p[1] < s * (c.x + 1)
  /\ s * c.y <= p[2] /\ p[2] < s * (c.y + 1)

\* painting the logical cells cs with colour col under transform scale s,
\* clipped to the bitmap
Paint(pixels, s, cs, col) ==
  [p \in DOMAIN pixels |->
     IF \E c \in cs : Covers(s, c, p) THEN col ELSE pixels[p]]

\* ctx.fillRect(0, 0, w, h) with fillStyle c under transform scale s
FillRect(cv, w, h, c) ==
  [cv EXCEPT !.pixels =
     [p \in DOMAIN cv.pixels |->
        IF p[1] < cv.scale * w /\ p[2] < cv.scale * h THEN c ELSE cv.pixels[p]]]

SetBitmapKeepTransform(cv, w, h) ==
  [cv EXCEPT !.width = w, !.height = h,
             !.pixels = [p \in Cells(w, h) |-> Transparent]]

\* assigning canvas.width / canvas.height reallocates the bitmap
\* (transparent) and resets the context state, transform included
SetBitmap(cv, w, h) ==
  [cv EXCEPT !.width = w, !.height = h, !.scale = 1,
             !.pixels = [p \in Cells(w, h) |-> Transparent]]

ScaleCtx(cv, k) == [cv EXCEPT !.scale = cv.scale * k]

\* the 2d context of the canvas element (getContext('2d') always returns
\* the same object)
Ctx == [ctx |-> "2d"]
CanvasElement == [element |-> "canvas"]

\* cells of the straight segment from a to b
Segment(a, b) ==
  {c \in [x : 0..MaxWidth, y : 0..MaxHeight] :
     /\ (IF a.x <= b.x THEN a.x <= c.x /\ c.x <= b.x ELSE b.x <= c.x /\ c.x <= a.x)
     /\ (IF a.y <= b.y THEN a.y <= c.y /\ c.y <= b.y ELSE b.y <= c.y /\ c.y <= a.y)
     /\ (c.x - a.x) * (b.y - a.y) = (c.y - a.y) * (b.x - a.x)}

\* ----- Canvas.tsx: setup effect ------------------------------------------
SetupCanvasNoFill(cv, size) ==
  LET a == SetBitmap(cv, size.width * Multiplier, cv.height)
      b == SetBitmap(a, a.width, size.height * Multiplier)
      c == [b EXCEPT !.style = size]
  IN  IF canvasRef = NULL THEN cv ELSE ScaleCtx(c, Multiplier)

\* the body of the setup effect for the committed canvasSize: the canvas
\* element after it
SetupCanvas(cv, size) ==
  LET a == SetBitmap(cv, size.width * Multiplier, cv.height)
      b == SetBitmap(a, a.width, size.height * Multiplier)
      c == [b EXCEPT !.style = size]
      d == ScaleCtx(c, Multiplier)
  IN  IF canvasRef = NULL THEN cv
      ELSE FillRect(d, size.width, size.height, Background)

\* contextRef.current after the setup effect
SetupContext == IF canvasRef = NULL THEN contextRef ELSE Ctx

\* ----- Canvas.tsx: input normalisation ------------------------------------
getCoordinates(e) ==
  IF canvasRef = NULL THEN [x |-> 0, y |-> 0]
  ELSE IF "touches" \in DOMAIN e
  THEN [x |-> e.touches[1].clientX - Rect.left,
        y |-> e.touches[1].clientY - Rect.top]
  ELSE [x |-> e.clientX - Rect.left, y |-> e.clientY - Rect.top]

MouseEvent(t, cx, cy) == [type |-> t, clientX |-> cx, clientY |-> cy]
TouchEvent(t, cx, cy) ==
  [type |-> t, touches |-> <<[clientX |-> cx, clientY |-> cy]>>]
PointerEvents(mouseType, touchType) ==
  {MouseEvent(mouseType, cx, cy) : cx \in ClientXs, cy \in ClientYs}
  \cup {TouchEvent(touchType, cx, cy) : cx \in ClientXs, cy \in ClientYs}

\* ----- Canvas.tsx: the three paint algorithms -----------------------------
\* Each yields the canvas after the call and the record of the call; a call
\* on a surface whose context is not initialised returns at once.
\* a callback memoised without its dependencies keeps the props of the
\* first render
drawBrushStrokeStale(cv, start, end) ==
  [canvas |-> IF contextRef = NULL THEN cv
              ELSE [cv EXCEPT !.pixels =
                      Paint(cv.pixels, cv.scale, Segment(start, end), "#e63946")],
   call |-> [fn |-> "drawBrushStroke", start |-> start, end |-> end,
             strokeStyle |-> "#e63946", lineWidth |-> 12,
             drawn |-> contextRef # NULL]]

drawBrushStroke(cv, start, end) ==
  [canvas |-> IF contextRef = NULL THEN cv
              ELSE [cv EXCEPT !.pixels =
                      Paint(cv.pixels, cv.scale, Segment(start, end), color)],
   call |-> [fn |-> "drawBrushStroke", start |-> start, end |-> end,
             strokeStyle |-> color, lineWidth |-> brushSize,
             drawn |-> contextRef # NULL]]

drawSplatterUnguarded(cv, x, y) ==
  [canvas |-> [cv EXCEPT !.pixels = Paint(cv.pixels, cv.scale, {[x |-> x, y |-> y]}, color)],
   call |-> [fn |-> "drawSplatter", x |-> x, y |-> y,
             fillStyle |-> color, size |-> brushSize, drawn |-> TRUE]]

drawSplatter(cv, x, y) ==
  [canvas |-> IF contextRef = NULL THEN cv
              ELSE [cv EXCEPT !.pixels =
                      Paint(cv.pixels, cv.scale, {[x |-> x, y |-> y]}, color)],
   call |-> [fn |-> "drawSplatter", x |-> x, y |-> y,
             fillStyle |-> color, size |-> brushSize,
             drawn |-> contextRef # NULL]]

drawDrip(cv, x, y) ==
  [canvas |-> IF contextRef = NULL THEN cv
              ELSE [cv EXCEPT !.pixels =
                      Paint(cv.pixels, cv.scale, {[x |-> x, y |-> y]}, color)],
   call |-> [fn |-> "drawDrip", x |-> x, y |-> y,
             fillStyle |-> color, size |-> brushSize,
             drawn |-> contextRef # NULL]]

Nothing(cv) == [canvas |-> cv, call |-> NULL]
CallsOf(r) == IF r.call = NULL THEN <<>> ELSE <<r.call>>

\* ----- Canvas.tsx: session controller -------------------------------------
StartRenderNoSplatter(cv, coords) ==
  IF tool = "drip" THEN drawDrip(cv, coords.x, coords.y) ELSE Nothing(cv)

\* what handleStart dispatches for the event's point
StartRender(cv, coords) ==
  IF tool = "splatter" THEN drawSplatter(cv, coords.x, coords.y)
  ELSE IF tool = "drip" THEN drawDrip(cv, coords.x, coords.y)
  ELSE Nothing(cv)

MoveRenderDots(cv, coords, rnd) ==
  IF tool = "brush" /\ lastPoint # NULL
  THEN drawBrushStroke(cv, coords, coords)
  ELSE IF tool = "splatter" /\ rnd > SplatterThreshold
       THEN drawSplatter(cv, coords.x, coords.y)
  ELSE IF tool = "drip" /\ rnd > DripThreshold THEN drawDrip(cv, coords.x, coords.y)
  ELSE Nothing(cv)

MoveRenderSwapped(cv, coords, rnd) ==
  IF tool = "brush" /\ lastPoint # NULL THEN drawBrushStroke(cv, lastPoint, coords)
  ELSE IF tool = "splatter" /\ rnd > SplatterThreshold
       THEN drawDrip(cv, coords.x, coords.y)
  ELSE IF tool = "drip" /\ rnd > DripThreshold THEN drawSplatter(cv, coords.x, coords.y)
  ELSE Nothing(cv)

\* what handleMove dispatches; rnd is the outcome of Math.random()
MoveRender(cv, coords, rnd) ==
  IF tool = "brush" /\ lastPoint # NULL THEN drawBrushStroke(cv, lastPoint, coords)
  ELSE IF tool = "splatter" /\ rnd > SplatterThreshold
       THEN drawSplatter(cv, coords.x, coords.y)
  ELSE IF tool = "drip" /\ rnd > DripThreshold THEN drawDrip(cv, coords.x, coords.y)
  ELSE Nothing(cv)

\* `if (!isDrawing.current) return;`
MoveIgnoredUnguarded == FALSE
MoveIgnored == ~isDrawing

\* lastPoint.current after handleEnd
EndLastPointStale == lastPoint
EndLastPoint == NULL

Ghost(e, cs, r) == /\ event' = e /\ calls' = cs /\ result' = r

\* the pointer an event belongs to
Pointer(e) ==
  IF e.type \in {"touchstart", "touchmove", "touchend"} THEN "touch" ELSE "mouse"

\* a handleStart that leaves lastPoint to the first move
handleStartLate(e) ==
  /\ ~crashed
  /\ pressed' = pressed \cup {Pointer(e)}
  /\ UNCHANGED <<frame, uiVars>>
  /\ UNCHANGED canvasRef
  /\ LET coords == getCoordinates(e)
         r == StartRender(canvas, coords)
     IN  /\ isDrawing' = TRUE
         /\ lastPoint' = lastPoint
         /\ canvas' = r.canvas
         /\ Ghost(e, CallsOf(r), NoResult)
         /\ prevSample' = coords
         /\ configChanged' = FALSE
  /\ UNCHANGED <<canvasSize, effects, contextRef, color, tool,
                 brushSize, stored, savedArtworks, isLoaded, crashed>>

handleStart(e) ==
  /\ ~crashed
  /\ pressed' = pressed \cup {Pointer(e)}
  /\ UNCHANGED <<frame, uiVars>>
  /\ UNCHANGED canvasRef
  /\ LET coords == getCoordinates(e)
         r == StartRender(canvas, coords)
     IN  /\ isDrawing' = TRUE
         /\ lastPoint' = coords
         /\ canvas' = r.canvas
         /\ Ghost(e, CallsOf(r), NoResult)
         /\ prevSample' = coords
         /\ configChanged' = FALSE
  /\ UNCHANGED <<canvasSize, effects, contextRef, color, tool,
                 brushSize, stored, savedArtworks, isLoaded, crashed>>

\* a handleMove that keeps lastPoint when it rendered nothing
handleMoveLazy(e, rnd) ==
  /\ ~crashed
  /\ UNCHANGED <<pressed, frame, uiVars>>
  /\ UNCHANGED canvasRef
  /\ IF MoveIgnored
     THEN /\ Ghost([type |-> e.type], <<>>, NoResult)
          /\ UNCHANGED <<isDrawing, lastPoint, canvas, prevSample, configChanged>>
     ELSE LET coords == getCoordinates(e)
              r == MoveRender(canvas, coords, rnd)
          IN  /\ canvas' = r.canvas
              /\ lastPoint' = (IF r.call = NULL THEN lastPoint ELSE coords)
              /\ Ghost(e, CallsOf(r), NoResult)
              /\ prevSample' = lastPoint'
              /\ UNCHANGED <<isDrawing, configChanged>>
  /\ UNCHANGED <<canvasSize, effects, contextRef, color, tool,
                 brushSize, stored, savedArtworks, isLoaded, crashed>>

handleMove(e, rnd) ==
  /\ ~crashed
  /\ UNCHANGED <<pressed, frame, uiVars>>
  /\ UNCHANGED canvasRef
  /\ IF MoveIgnored
     THEN /\ Ghost([type |-> e.type], <<>>, NoResult)
          /\ UNCHANGED <<isDrawing, lastPoint, canvas, prevSample, configChanged>>
     ELSE LET coords == getCoordinates(e)
              r == MoveRender(canvas, coords, rnd)
          IN  /\ canvas' = r.canvas
              /\ lastPoint' = coords
              /\ Ghost(e, CallsOf(r), NoResult)
              /\ prevSample' = coords
              /\ UNCHANGED <<isDrawing, configChanged>>
  /\ UNCHANGED <<canvasSize, effects, contextRef, color, tool,
                 brushSize, stored, savedArtworks, isLoaded, crashed>>

\* a handleEnd that finishes the stroke at the last point
handleEndFinishing(e) ==
  /\ ~crashed
  /\ pressed' = pressed \ {Pointer(e)}
  /\ UNCHANGED <<frame, canvasRef, uiVars>>
  /\ LET r == IF isDrawing /\ lastPoint # NULL
              THEN drawBrushStroke(canvas, lastPoint, lastPoint)
              ELSE Nothing(canvas)
     IN  /\ canvas' = r.canvas
         /\ Ghost(e, CallsOf(r), NoResult)
  /\ isDrawing' = FALSE
  /\ lastPoint' = EndLastPoint
  /\ prevSample' = NULL
  /\ configChanged' = FALSE
  /\ UNCHANGED <<canvasSize, effects, contextRef, color,
                 tool, brushSize, stored, savedArtworks, isLoaded, crashed>>

handleEnd(e) ==
  /\ ~crashed
  /\ pressed' = pressed \ {Pointer(e)}
  /\ UNCHANGED <<frame, uiVars>>
  /\ UNCHANGED canvasRef
  /\ isDrawing' = FALSE
  /\ lastPoint' = EndLastPoint
  /\ Ghost(e, <<>>, NoResult)
  /\ prevSample' = NULL
  /\ configChanged' = FALSE
  /\ UNCHANGED <<canvasSize, effects, canvas, contextRef, color,
                 tool, brushSize, stored, savedArtworks, isLoaded, crashed>>

\* ----- Canvas.tsx: imperative handle --------------------------------------
clearCanvasRescaled(cv) ==
  IF contextRef = NULL THEN cv
  ELSE FillRect(ScaleCtx(cv, Multiplier), canvasSize.width, canvasSize.height,
                Background)

\* clear() of the handle built for the committed canvasSize
clearCanvas(cv) ==
  IF contextRef = NULL THEN cv
  ELSE FillRect(cv, canvasSize.width, canvasSize.height, Background)

\* canvas.toDataURL('image/png'): a lossless encoding of the bitmap
toDataURL(cv) ==
  [mime |-> "image/png", width |-> cv.width, height |-> cv.height,
   pixels |-> cv.pixels]

\* save() of the handle
saveCanvas(cv) == IF canvasRef = NULL THEN NULL ELSE toDataURL(cv)

clear ==
  /\ ~crashed
  /\ UNCHANGED <<pressed, frame, uiVars>>
  /\ UNCHANGED canvasRef
  /\ canvas' = clearCanvas(canvas)
  /\ Ghost([type |-> "clear"], <<>>, NoResult)
  /\ UNCHANGED <<canvasSize, effects, contextRef, isDrawing,
                 lastPoint, color, tool, brushSize, stored, savedArtworks,
                 isLoaded, crashed, prevSample, configChanged>>

save ==
  /\ ~crashed
  /\ UNCHANGED <<pressed, frame, uiVars>>
  /\ UNCHANGED canvasRef
  /\ Ghost([type |-> "save"], <<>>, saveCanvas(canvas))
  /\ UNCHANGED <<canvasSize, effects, canvas, contextRef,
                 isDrawing, lastPoint, color, tool, brushSize, stored,
                 savedArtworks, isLoaded, crashed, prevSample, configChanged>>

\* ----- Canvas.tsx: resize effect ------------------------------------------
\* getBoundingClientRect() of the container, in half cells
ContainerRects ==
  [width : 2..(2 * MaxWidth + 1),
   height : {2 * h + 1 : h \in Heights}]
Floor(halves) == halves \div 2

\* the argument updateSize passes to setCanvasSize
updateSize(rect) == [width |-> Floor(rect.width), height |-> Floor(rect.height)]

\* ----- App.tsx: persisted artwork list ------------------------------------
Letters == {"a", "b"}
Quote == "q"        \* the character "
Fail == [ok |-> FALSE]
Ok(v) == [ok |-> TRUE, value |-> v]

\* JSON.parse on a list of one-letter strings: Ok(list), or Fail where
\* JSON.parse throws a SyntaxError
RECURSIVE ParseElements(_, _, _)
ParseElements(s, i, acc) ==
  IF i + 3 > Len(s) THEN Fail
  ELSE IF s[i] = Quote /\ s[i + 1] \in Letters /\ s[i + 2] = Quote
       THEN IF s[i + 3] = "]"
            THEN (IF i + 3 = Len(s) THEN Ok(Append(acc, s[i + 1])) ELSE Fail)
            ELSE IF s[i + 3] = ","
                 THEN ParseElements(s, i + 4, Append(acc, s[i + 1]))
                 ELSE Fail
       ELSE Fail

JSONparse(s) ==
  IF Len(s) < 2 \/ s[1] # "[" THEN Fail
  ELSE IF s[2] = "]" THEN (IF Len(s) = 2 THEN Ok(<<>>) ELSE Fail)
  ELSE ParseElements(s, 2, <<>>)

\* a text the 'artworks' slot may hold when the application starts: a list
\* cut short
Truncated == [text |-> <<"[", Quote, "a", Quote>>]

\* `if (stored)`: null and the empty string are falsy
Truthy(st) == st # NULL /\ st.text # <<>>

\* the load effect of App: the list to set, or Fail when it throws
LoadArtworks(st, current) ==
  IF Truthy(st) THEN JSONparse(st.text) ELSE Ok(current)

\* ----- App.tsx: saving and deleting artworks ------------------------------
\* JSON.stringify of a list of strings
RECURSIVE StringifyElements(_, _)
StringifyElements(list, i) ==
  IF i > Len(list) THEN <<>>
  ELSE (IF i > 1 THEN <<",">> ELSE <<>>)
       \o <<Quote, list[i], Quote>> \o StringifyElements(list, i + 1)

JSONstringify(list) == <<"[">> \o StringifyElements(list, 1) \o <<"]">>

\* lists of at most n artworks; the text of a data URL is one letter
Lists(n) == UNION {[1..k -> Letters] : k \in 0..n}

\* what the 'artworks' slot may hold when the application starts
StoredTexts ==
  {NULL, Truncated} \cup {[text |-> JSONstringify(l)] : l \in Lists(MaxArtworks)}

filterIndexOneBased(list, index) ==
  SubSeq(list, 1, index - 1) \o SubSeq(list, index + 1, Len(list))

\* `savedArtworks.filter((_, i) => i !== index)`, index counted from 0
filterIndex(list, index) ==
  SubSeq(list, 1, index) \o SubSeq(list, index + 2, Len(list))

\* handleSave; d is the text of the data URL that save() returns
handleSave(d) ==
  /\ ~crashed
  /\ Len(savedArtworks) < MaxArtworks
  /\ LET dataUrl == IF saveCanvas(canvas) = NULL THEN NULL ELSE [url |-> d]
     IN  /\ IF dataUrl # NULL
            THEN LET newArtworks == Append(savedArtworks, dataUrl.url)
                 IN  /\ savedArtworks' = newArtworks
                     /\ stored' = [text |-> JSONstringify(newArtworks)]
            ELSE UNCHANGED <<savedArtworks, stored>>
         /\ Ghost([type |-> "handleSave", dataUrl |-> dataUrl], <<>>,
                  saveCanvas(canvas))
  /\ UNCHANGED <<canvasSize, effects, canvasRef, canvas, contextRef, isDrawing,
                 lastPoint, color, tool, brushSize, isLoaded, crashed,
                 prevSample, configChanged, pressed, frame, uiVars>>

\* handleDeleteArtwork(index), called by the gallery for a shown artwork
handleDeleteArtwork(index) ==
  /\ ~crashed
  /\ index \in 0..(Len(savedArtworks) - 1)
  /\ LET newArtworks == filterIndex(savedArtworks, index)
     IN  /\ savedArtworks' = newArtworks
         /\ stored' = [text |-> JSONstringify(newArtworks)]
  /\ Ghost([type |-> "handleDeleteArtwork", index |-> index], <<>>, NoResult)
  /\ UNCHANGED <<canvasSize, effects, canvasRef, canvas, contextRef, isDrawing,
                 lastPoint, color, tool, brushSize, isLoaded, crashed,
                 prevSample, configChanged, pressed, frame, uiVars>>

\* ----- React steps --------------------------------------------------------
\* whether a render with the new state schedules the setup effect: the
\* object passed to setCanvasSize is never identical to the current state
SizeChanged(old, new) == TRUE

\* passive effects pending after a commit that set canvasSize
EffectsAfter(old, new) == IF SizeChanged(old, new) THEN "setup" ELSE "none"

\* passive effects of the first commit, children first: Canvas resize
\* effect, Canvas setup effect, App load effect; then the render and commit
\* of the measured size
MountEffects(rect) ==
  /\ ~crashed
  /\ UNCHANGED <<pressed, frame, uiVars>>
  /\ effects = "mount"
  /\ canvas' = SetupCanvas(canvas, canvasSize)
  /\ contextRef' = SetupContext
  /\ LET loaded == LoadArtworks(stored, savedArtworks)
     IN  IF loaded.ok
         THEN /\ isLoaded' = TRUE
              /\ savedArtworks' = loaded.value
              /\ crashed' = FALSE
              /\ canvasRef' = canvasRef
              /\ canvasSize' = updateSize(rect)
              /\ effects' = EffectsAfter(canvasSize, updateSize(rect))
         ELSE /\ crashed' = TRUE
              /\ effects' = "none"
              /\ canvasRef' = NULL
              /\ UNCHANGED <<isLoaded, savedArtworks, canvasSize>>
  /\ Ghost([type |-> "mount"], <<>>, NoResult)
  /\ UNCHANGED <<isDrawing, lastPoint, color, tool, brushSize, stored, prevSample, configChanged>>

\* a window 'resize' event, handled by the listener the resize effect
\* added, and the render and commit of the new size; the effects of the
\* previous commit are flushed before a new render
Resize(rect) ==
  /\ ~crashed
  /\ UNCHANGED <<pressed, frame, uiVars>>
  /\ UNCHANGED canvasRef
  /\ effects = "none"
  /\ canvasSize' = updateSize(rect)
  /\ effects' = EffectsAfter(canvasSize, updateSize(rect))
  /\ Ghost([type |-> "resize"], <<>>, NoResult)
  /\ UNCHANGED <<canvas, contextRef, isDrawing, lastPoint, color, tool,
                 brushSize, stored, savedArtworks, isLoaded, crashed, prevSample, configChanged>>

\* a setup effect that also ends the running session
SetupEffectEndsSession ==
  /\ ~crashed
  /\ UNCHANGED <<pressed, frame, uiVars>>
  /\ UNCHANGED canvasRef
  /\ effects = "setup"
  /\ canvas' = SetupCanvas(canvas, canvasSize)
  /\ contextRef' = SetupContext
  /\ effects' = "none"
  /\ isDrawing' = FALSE
  /\ lastPoint' = NULL
  /\ Ghost([type |-> "setup"], <<>>, NoResult)
  /\ UNCHANGED <<canvasSize, color, tool,
                 brushSize, stored, savedArtworks, isLoaded, crashed, prevSample, configChanged>>

\* the setup effect of a later commit
SetupEffect ==
  /\ ~crashed
  /\ UNCHANGED <<pressed, frame, uiVars>>
  /\ UNCHANGED canvasRef
  /\ effects = "setup"
  /\ canvas' = SetupCanvas(canvas, canvasSize)
  /\ contextRef' = SetupContext
  /\ effects' = "none"
  /\ Ghost([type |-> "setup"], <<>>, NoResult)
  /\ UNCHANGED <<canvasSize, isDrawing, lastPoint, color, tool,
                 brushSize, stored, savedArtworks, isLoaded, crashed, prevSample, configChanged>>

\* ----- App.tsx: configuration set from the toolbar ------------------------
setSelectedColor(c) ==
  /\ ~crashed
  /\ UNCHANGED <<pressed, frame, uiVars>>
  /\ UNCHANGED canvasRef
  /\ c # color
  /\ color' = c
  /\ Ghost([type |-> "config"], <<>>, NoResult)
  /\ configChanged' = (configChanged \/ (isDrawing /\ c # color))
  /\ UNCHANGED <<canvasSize, effects, canvas, contextRef, isDrawing,
                 lastPoint, tool, brushSize, stored, savedArtworks, isLoaded,
                 crashed, prevSample>>

setSelectedTool(t) ==
  /\ ~crashed
  /\ UNCHANGED <<pressed, frame, uiVars>>
  /\ UNCHANGED canvasRef
  /\ t # tool
  /\ tool' = t
  /\ Ghost([type |-> "config"], <<>>, NoResult)
  /\ UNCHANGED <<canvasSize, effects, canvas, contextRef, isDrawing,
                 lastPoint, color, brushSize, stored, savedArtworks, isLoaded,
                 crashed, prevSample, configChanged>>

setBrushSize(b) ==
  /\ ~crashed
  /\ UNCHANGED <<pressed, frame, uiVars>>
  /\ UNCHANGED canvasRef
  /\ b # brushSize
  /\ brushSize' = b
  /\ Ghost([type |-> "config"], <<>>, NoResult)
  /\ configChanged' = (configChanged \/ (isDrawing /\ b # brushSize))
  /\ UNCHANGED <<canvasSize, effects, canvas, contextRef, isDrawing,
                 lastPoint, color, tool, stored, savedArtworks, isLoaded,
                 crashed, prevSample>>

\* ----- JavaScript numbers in the paint functions --------------------------
\* A Number is a binary floating-point value and every arithmetic operation
\* rounds its exact result to the nearest one, ties to the even significand.
\* The model keeps this with a significand of SigBits bits where a double
\* has 53; a value is held as its count of units of 1 / Unit.
SigBits == 8
Unit == 2 * 2^SigBits
Num(n) == n * Unit
Half == Unit \div 2

\* spacing of the floating-point values around v
RECURSIVE Ulp(_)
Ulp(v) == IF v < 2^SigBits THEN 1 ELSE 2 * Ulp(v \div 2)

\* round to nearest, ties to even
Round(v) ==
  LET u == Ulp(v)
      q == v \div u
      rem == v % u
  IN  IF 2 * rem < u THEN q * u
      ELSE IF 2 * rem > u THEN (q + 1) * u
      ELSE IF q % 2 = 0 THEN q * u ELSE (q + 1) * u

Mul(a, b) == Round(a * b) \div Unit
Add(a, b) == Round(a + b)

\* Math.random(): floating-point values of [0, 1), here the sixteenths and
\* the largest value below 1, which is 1 - 2^-SigBits
MathRandom == {(Unit \div 16) * k : k \in 0..15} \cup {Unit - 2}
\* the smallest, the middle and the largest outcome
Extremes == {0, Half, Unit - 2}

\* Math.cos(angle), Math.sin(angle) for the angles of the four axes
Directions ==
  {[cos |-> 1, sin |-> 0], [cos |-> 0, sin |-> 1],
   [cos |-> -1, sin |-> 0], [cos |-> 0, sin |-> -1]}

\* ----- Canvas.tsx: drawSplatter and drawDrip, statement by statement ------
\* `Math.floor(Math.random() * 12) + 8`
numDropletsWide(rnd) == Mul(rnd, Num(13)) \div Unit + 8
numDroplets(rnd) == Mul(rnd, Num(12)) \div Unit + 8

\* `Math.random() * brushSize * 3`
distance(rnd) == Mul(Mul(rnd, Num(brushSize)), Num(3))
\* `Math.random() * brushSize * 0.5 + 2`
dropletSize(rnd) == Add(Mul(Mul(rnd, Num(brushSize)), Half), Num(2))
\* `Math.random() * 80 + 40`
dripLength(rnd) == Add(Mul(rnd, Num(80)), Num(40))
\* `Math.random() * brushSize * 0.5 + brushSize * 0.5`
dripWidth(rnd) ==
  Add(Mul(Mul(rnd, Num(brushSize)), Half), Mul(Num(brushSize), Half))

\* points the paint functions are called with
Points == [x : {c - Rect.left : c \in ClientXs}, y : {c - Rect.top : c \in ClientYs}]

\* no paint function is running
Returned == IF frame = NULL THEN TRUE ELSE frame.returned

otherVars ==
  <<canvasSize, effects, canvasRef, contextRef, isDrawing, lastPoint, color,
    tool, brushSize, stored, savedArtworks, isLoaded, crashed, event, calls,
    result, prevSample, configChanged, pressed, uiVars>>

\* drawSplatter(x, y) up to the loop
drawSplatterCall(p, rnd) ==
  /\ Returned
  /\ tool = "splatter"
  /\ frame' = IF contextRef = NULL
              THEN [fn |-> "drawSplatter", x |-> p.x, y |-> p.y, ctx |-> NULL,
                    returned |-> TRUE]
              ELSE [fn |-> "drawSplatter", x |-> p.x, y |-> p.y,
                    ctx |-> contextRef, numDroplets |-> numDroplets(rnd),
                    i |-> 0, droplet |-> NULL, returned |-> FALSE]
  /\ UNCHANGED canvas
  /\ UNCHANGED otherVars

\* one iteration of the loop: the droplet is an arc of radius dropletSize
\* whose centre is the point moved by distance in the direction of angle
\* (offsets in units of 1 / Unit); the loop ends after numDroplets
\* iterations
drawSplatterDroplet(angle, rndDistance, rndSize) ==
  /\ ~Returned
  /\ frame.fn = "drawSplatter"
  /\ frame.i < frame.numDroplets
  /\ LET d == distance(rndDistance)
     IN  frame' = [frame EXCEPT
                     !.droplet = [dx |-> angle.cos * d, dy |-> angle.sin * d,
                                  radius |-> dropletSize(rndSize),
                                  fillStyle |-> color],
                     !.i = frame.i + 1,
                     !.returned = (frame.i + 1 = frame.numDroplets)]
  /\ canvas' = [canvas EXCEPT !.pixels =
                  Paint(canvas.pixels, canvas.scale,
                        {[x |-> frame.x, y |-> frame.y]}, color)]
  /\ UNCHANGED otherVars

\* drawDrip(x, y): the blob is an ellipse of both radii dripWidth, the
\* taper a closed curve from the blob down to (x, y + dripLength)
drawDripCall(p, rndLength, rndWidth) ==
  /\ Returned
  /\ tool = "drip"
  /\ frame' = IF contextRef = NULL
              THEN [fn |-> "drawDrip", x |-> p.x, y |-> p.y, ctx |-> NULL,
                    returned |-> TRUE]
              ELSE [fn |-> "drawDrip", x |-> p.x, y |-> p.y, ctx |-> contextRef,
                    dripLength |-> dripLength(rndLength),
                    dripWidth |-> dripWidth(rndWidth),
                    fillStyle |-> color, returned |-> TRUE]
  /\ canvas' = IF contextRef = NULL THEN canvas
               ELSE [canvas EXCEPT !.pixels =
                       Paint(canvas.pixels, canvas.scale, {p}, color)]
  /\ UNCHANGED otherVars

\* ----- timers ---------------------------------------------------------------
\* `setTimeout(..., 3000)` of the Toolbar and of the Gallery, in seconds
ConfirmDelay == 3

Timer(callback) == [callback |-> callback, left |-> ConfirmDelay]

\* one second passes; a timer that is due runs before more time passes
Tick ==
  /\ ~crashed
  /\ timers # <<>>
  /\ \A i \in DOMAIN timers : timers[i].left > 0
  /\ timers' = [i \in DOMAIN timers |-> [timers[i] EXCEPT !.left = @ - 1]]
  /\ armedFor' = IF armedFor = NULL THEN NULL ELSE [ticks |-> armedFor.ticks + 1]
  /\ Ghost([type |-> "tick"], <<>>, NoResult)
  /\ UNCHANGED <<canvasSize, effects, canvasRef, canvas, contextRef, isDrawing,
                 lastPoint, color, tool, brushSize, stored, savedArtworks,
                 isLoaded, crashed, prevSample, configChanged, pressed, frame,
                 showClearConfirm, deleteConfirm, prevClick>>

\* the oldest timer is due and its callback runs:
\* `() => setShowClearConfirm(false)` or `() => setDeleteConfirm(null)`
Timeout ==
  /\ ~crashed
  /\ timers # <<>>
  /\ Head(timers).left = 0
  /\ timers' = Tail(timers)
  /\ IF Head(timers).callback = "setShowClearConfirm"
     THEN /\ showClearConfirm' = FALSE
          /\ armedFor' = NULL
          /\ UNCHANGED deleteConfirm
     ELSE /\ deleteConfirm' = NULL
          /\ UNCHANGED <<showClearConfirm, armedFor>>
  /\ Ghost([type |-> "timeout", callback |-> Head(timers).callback], <<>>, NoResult)
  /\ UNCHANGED <<canvasSize, effects, canvasRef, canvas, contextRef, isDrawing,
                 lastPoint, color, tool, brushSize, stored, savedArtworks,
                 isLoaded, crashed, prevSample, configChanged, pressed, frame,
                 prevClick>>

\* ----- Toolbar.tsx: clear button ------------------------------------------
\* a handleClear that clears on every click
ToolbarHandleClearAtOnce ==
  /\ ~crashed
  /\ canvas' = clearCanvas(canvas)
  /\ showClearConfirm' = FALSE
  /\ armedFor' = NULL
  /\ UNCHANGED timers
  /\ Ghost([type |-> "handleClear", onClear |-> TRUE], <<>>, NoResult)
  /\ UNCHANGED <<canvasSize, effects, canvasRef, contextRef, isDrawing,
                 lastPoint, color, tool, brushSize, stored, savedArtworks,
                 isLoaded, crashed, prevSample, configChanged, pressed, frame,
                 deleteConfirm, prevClick>>

\* handleClear of the Toolbar; onClear is handleClear of App, which calls
\* clear() of the Canvas handle
ToolbarHandleClear ==
  /\ ~crashed
  /\ IF showClearConfirm
     THEN /\ canvas' = clearCanvas(canvas)
          /\ showClearConfirm' = FALSE
          /\ armedFor' = NULL
          /\ UNCHANGED timers
          /\ Ghost([type |-> "handleClear", onClear |-> TRUE], <<>>, NoResult)
     ELSE /\ Len(timers) < MaxTimers
          /\ showClearConfirm' = TRUE
          /\ timers' = Append(timers, Timer("setShowClearConfirm"))
          /\ armedFor' = [ticks |-> 0]
          /\ UNCHANGED canvas
          /\ Ghost([type |-> "handleClear", onClear |-> FALSE], <<>>, NoResult)
  /\ UNCHANGED <<canvasSize, effects, canvasRef, contextRef, isDrawing,
                 lastPoint, color, tool, brushSize, stored, savedArtworks,
                 isLoaded, crashed, prevSample, configChanged, pressed, frame,
                 deleteConfirm, prevClick>>

\* ----- Gallery.tsx: delete button -----------------------------------------
\* a handleDelete that takes any pending confirmation
GalleryHandleDeleteAny(index) ==
  /\ ~crashed
  /\ index \in 0..(Len(savedArtworks) - 1)
  /\ IF deleteConfirm # NULL
     THEN LET newArtworks == filterIndex(savedArtworks, index)
          IN  /\ savedArtworks' = newArtworks
              /\ stored' = [text |-> JSONstringify(newArtworks)]
              /\ deleteConfirm' = NULL
              /\ prevClick' = NULL
              /\ UNCHANGED timers
              /\ Ghost([type |-> "handleDelete", index |-> index,
                        onDelete |-> TRUE], <<>>, NoResult)
     ELSE /\ Len(timers) < MaxTimers
          /\ deleteConfirm' = [index |-> index]
          /\ timers' = Append(timers, Timer("setDeleteConfirm"))
          /\ prevClick' = [index |-> index, artworks |-> savedArtworks]
          /\ UNCHANGED <<savedArtworks, stored>>
          /\ Ghost([type |-> "handleDelete", index |-> index,
                    onDelete |-> FALSE], <<>>, NoResult)
  /\ UNCHANGED <<canvasSize, effects, canvasRef, canvas, contextRef, isDrawing,
                 lastPoint, color, tool, brushSize, isLoaded, crashed,
                 prevSample, configChanged, pressed, frame, showClearConfirm,
                 armedFor>>

\* handleDelete(index) of the Gallery, for a shown artwork; onDelete is
\* handleDeleteArtwork of App
GalleryHandleDelete(index) ==
  /\ ~crashed
  /\ index \in 0..(Len(savedArtworks) - 1)
  /\ IF deleteConfirm = [index |-> index]
     THEN LET newArtworks == filterIndex(savedArtworks, index)
          IN  /\ savedArtworks' = newArtworks
              /\ stored' = [text |-> JSONstringify(newArtworks)]
              /\ deleteConfirm' = NULL
              /\ prevClick' = NULL
              /\ UNCHANGED timers
              /\ Ghost([type |-> "handleDelete", index |-> index,
                        onDelete |-> TRUE], <<>>, NoResult)
     ELSE /\ Len(timers) < MaxTimers
          /\ deleteConfirm' = [index |-> index]
          /\ timers' = Append(timers, Timer("setDeleteConfirm"))
          /\ prevClick' = [index |-> index, artworks |-> savedArtworks]
          /\ UNCHANGED <<savedArtworks, stored>>
          /\ Ghost([type |-> "handleDelete", index |-> index,
                    onDelete |-> FALSE], <<>>, NoResult)
  /\ UNCHANGED <<canvasSize, effects, canvasRef, canvas, contextRef, isDrawing,
                 lastPoint, color, tool, brushSize, isLoaded, crashed,
                 prevSample, configChanged, pressed, frame, showClearConfirm,
                 armedFor>>

\* ----- specification ------------------------------------------------------
\* Toolbar and Gallery as first rendered, no timer pending
UiInit ==
  /\ showClearConfirm = FALSE
  /\ deleteConfirm = NULL
  /\ timers = <<>>
  /\ armedFor = NULL
  /\ prevClick = NULL

Init ==
  /\ canvasSize = InitialCanvasSize
  /\ effects = "mount"
  /\ canvasRef = CanvasElement
  /\ canvas = NewCanvas
  /\ contextRef = NULL
  /\ isDrawing = FALSE
  /\ lastPoint = NULL
  /\ color = "#e63946"
  /\ tool = "brush"
  /\ brushSize = 12
  /\ stored \in {NULL, Truncated}
  /\ savedArtworks = <<>>
  /\ isLoaded = FALSE
  /\ crashed = FALSE
  /\ event = [type |-> "init"]
  /\ calls = <<>>
  /\ result = NoResult
  /\ prevSample = NULL
  /\ configChanged = FALSE
  /\ pressed = {}
  /\ frame = NULL
  /\ UiInit

Next ==
  \/ \E rect \in ContainerRects : MountEffects(rect)
  \/ \E rect \in ContainerRects : Resize(rect)
  \/ SetupEffect
  \/ \E e \in PointerEvents("mousedown", "touchstart") : handleStart(e)
  \/ \E e \in PointerEvents("mousemove", "touchmove"), rnd \in Randoms : handleMove(e, rnd)
  \/ \E t \in EndTypes : handleEnd([type |-> t])
  \/ clear
  \/ save
  \/ \E c \in Colors : setSelectedColor(c)
  \/ \E t \in Tools : setSelectedTool(t)
  \/ \E b \in BrushSizes : setBrushSize(b)

Spec == Init /\ [][Next]_vars

\* The paint functions on their own: a surface before or after its first
\* setup, with one of the brush sizes.
InitPaint ==
  /\ canvasSize = InitialCanvasSize
  /\ effects \in {"mount", "none"}
  /\ canvasRef = CanvasElement
  /\ contextRef = (IF effects = "mount" THEN NULL ELSE Ctx)
  /\ canvas = (IF effects = "mount" THEN NewCanvas
               ELSE SetupCanvas(NewCanvas, InitialCanvasSize))
  /\ isDrawing = TRUE
  /\ lastPoint = [x |-> 0, y |-> 0]
  /\ color = "#e63946"
  /\ tool \in {"splatter", "drip"}
  /\ brushSize \in BrushSizes
  /\ stored = NULL
  /\ savedArtworks = <<>>
  /\ isLoaded = (effects = "none")
  /\ crashed = FALSE
  /\ event = [type |-> "mousedown", clientX |-> lastPoint.x + Rect.left,
              clientY |-> lastPoint.y + Rect.top]
  /\ calls = <<>>
  /\ result = NoResult
  /\ prevSample = lastPoint
  /\ configChanged = FALSE
  /\ pressed = {"mouse"}
  /\ frame = NULL
  /\ UiInit

NextPaint ==
  \/ \E p \in Points, rnd \in MathRandom : drawSplatterCall(p, rnd)
  \/ \E angle \in Directions, rndDistance \in Extremes, rndSize \in {0, Unit - 2} :
       drawSplatterDroplet(angle, rndDistance, rndSize)
  \/ \E p \in Points, rndLength \in Extremes, rndWidth \in Extremes :
       drawDripCall(p, rndLength, rndWidth)

SpecPaint == InitPaint /\ [][NextPaint]_vars

\* The App component with its artwork list: start-up with any content of
\* the 'artworks' slot, then saves and deletes.
InitApp ==
  /\ canvasSize = InitialCanvasSize
  /\ effects = "mount"
  /\ canvasRef = CanvasElement
  /\ canvas = NewCanvas
  /\ contextRef = NULL
  /\ isDrawing = FALSE
  /\ lastPoint = NULL
  /\ color = "#e63946"
  /\ tool = "brush"
  /\ brushSize = 12
  /\ stored \in StoredTexts
  /\ savedArtworks = <<>>
  /\ isLoaded = FALSE
  /\ crashed = FALSE
  /\ event = [type |-> "init"]
  /\ calls = <<>>
  /\ result = NoResult
  /\ prevSample = NULL
  /\ configChanged = FALSE
  /\ pressed = {}
  /\ frame = NULL
  /\ UiInit

NextApp ==
  \/ \E rect \in ContainerRects : MountEffects(rect)
  \/ SetupEffect
  \/ \E d \in Letters : handleSave(d)
  \/ \E index \in 0..MaxArtworks : handleDeleteArtwork(index)

SpecApp == InitApp /\ [][NextApp]_vars

\* The Toolbar's clear button over a configured surface, blank or painted,
\* on which the splatter tool goes on painting between the clicks.
InitToolbar ==
  /\ canvasSize = InitialCanvasSize
  /\ effects = "none"
  /\ canvasRef = CanvasElement
  /\ contextRef = Ctx
  /\ color = "#e63946"
  /\ tool = "splatter"
  /\ brushSize = 12
  /\ canvas \in {SetupCanvas(NewCanvas, InitialCanvasSize),
                 drawSplatter(SetupCanvas(NewCanvas, InitialCanvasSize), 0, 0).canvas}
  /\ isDrawing = FALSE
  /\ lastPoint = NULL
  /\ stored = NULL
  /\ savedArtworks = <<>>
  /\ isLoaded = TRUE
  /\ crashed = FALSE
  /\ event = [type |-> "mouseup"]
  /\ calls = <<>>
  /\ result = NoResult
  /\ prevSample = NULL
  /\ configChanged = FALSE
  /\ pressed = {}
  /\ frame = NULL
  /\ UiInit

NextToolbar ==
  \/ \E e \in PointerEvents("mousedown", "touchstart") : handleStart(e)
  \/ \E t \in EndTypes : handleEnd([type |-> t])
  \/ ToolbarHandleClear
  \/ Tick
  \/ Timeout

SpecToolbar == InitToolbar /\ [][NextToolbar]_vars

\* The Gallery's delete buttons over a loaded list of artworks.
InitGallery ==
  /\ canvasSize = InitialCanvasSize
  /\ effects = "none"
  /\ canvasRef = CanvasElement
  /\ contextRef = Ctx
  /\ color = "#e63946"
  /\ tool = "brush"
  /\ brushSize = 12
  /\ canvas = SetupCanvas(NewCanvas, InitialCanvasSize)
  /\ isDrawing = FALSE
  /\ lastPoint = NULL
  /\ savedArtworks \in Lists(MaxArtworks)
  /\ stored = [text |-> JSONstringify(savedArtworks)]
  /\ isLoaded = TRUE
  /\ crashed = FALSE
  /\ event = [type |-> "mount"]
  /\ calls = <<>>
  /\ result = NoResult
  /\ prevSample = NULL
  /\ configChanged = FALSE
  /\ pressed = {}
  /\ frame = NULL
  /\ UiInit

NextGallery ==
  \/ \E index \in 0..MaxArtworks : GalleryHandleDelete(index)
  \/ Tick
  \/ Timeout

SpecGallery == InitGallery /\ [][NextGallery]_vars

\* ----- properties ---------------------------------------------------------
\* the point of a pointer event in logical coordinates: the client
\* coordinate of the mouse, or of the first contact, minus the top-left
\* corner of the surface
Normalized(e) ==
  LET c == IF e.type \in {"touchstart", "touchmove"} THEN e.touches[1] ELSE e
  IN  [x |-> c.clientX - Rect.left, y |-> c.clientY - Rect.top]

Ready == contextRef # NULL
Painted == {p \in DOMAIN canvas.pixels : canvas.pixels[p] \in Colors}
\* cells of the bitmap that show the logical cells cs when the surface is
\* configured
Shown(cv, cs) ==
  {p \in DOMAIN cv.pixels :
     \E c \in cs : /\ p[1] \div Multiplier = c.x /\ p[2] \div Multiplier = c.y}

BrushCall(a, b) ==
  [fn |-> "drawBrushStroke", start |-> a, end |-> b, strokeStyle |-> color,
   lineWidth |-> brushSize, drawn |-> Ready]
PointCall(f, p) ==
  [fn |-> f, x |-> p.x, y |-> p.y, fillStyle |-> color, size |-> brushSize,
   drawn |-> Ready]

\* C1: every interaction-end (mouse-up, mouse-leave, touch-end) leaves
\* lastPoint null and the session inactive, and a brush segment always
\* starts at the point of the previous event of its own session, never at
\* a point of an earlier session.
C1_EndResetsLastPoint ==
  [][/\ (event'.type \in EndTypes => lastPoint' = NULL /\ isDrawing' = FALSE)
     /\ \A i \in DOMAIN calls' :
          calls'[i].fn = "drawBrushStroke"
            => prevSample # NULL /\ calls'[i].start = prevSample]_vars

C1_Witness ==
  /\ event.type \in EndTypes
  /\ lastPoint = NULL /\ ~isDrawing
  /\ Painted # {}

\* C2: a move received while Drawing with the brush makes exactly one
\* drawBrushStroke call, from the point of the previous event of the
\* session to the point of this event, with line width brushSize and the
\* current colour, so that consecutive segments share their end points; on
\* a configured surface the segment is painted on the buffer.
C2_BrushPolyline ==
  [][(isDrawing /\ tool = "brush" /\ event'.type \in MoveTypes)
       => LET p == Normalized(event')
          IN  /\ prevSample # NULL
              /\ calls' = <<BrushCall(prevSample, p)>>
              /\ lastPoint' = p
              /\ prevSample' = p
              /\ Ready => \A q \in Shown(canvas', {prevSample, p}) :
                            canvas'.pixels[q] = color]_vars

C2_Witness ==
  /\ event.type \in MoveTypes
  /\ Len(calls) = 1
  /\ calls[1].fn = "drawBrushStroke"
  /\ calls[1].start # calls[1].end
  /\ calls[1].drawn
  /\ \E q \in Shown(canvas, {calls[1].start}) : canvas.pixels[q] = color

\* C3: a move received while Idle changes nothing: the session stays
\* inactive, lastPoint stays null, the buffer is unchanged and nothing is
\* dispatched, whatever the tool.
C3_IdleMoveIgnored ==
  [][(~isDrawing /\ event'.type \in MoveTypes)
       => /\ isDrawing' = FALSE
          /\ lastPoint = NULL /\ lastPoint' = NULL
          /\ canvas' = canvas
          /\ calls' = <<>>]_vars

C3_Witness ==
  /\ event.type \in MoveTypes
  /\ ~isDrawing
  /\ tool = "splatter"
  /\ Ready

\* C4: an interaction-start in Idle makes the session active and sets
\* lastPoint to the normalized point of the event; with the splatter or
\* drip tool exactly one drawSplatter / drawDrip call is made at that point
\* (painted on a configured surface), with the brush nothing is dispatched
\* and the buffer is unchanged.
C4_StartTransition ==
  [][(~isDrawing /\ event'.type \in StartTypes)
       => LET p == Normalized(event')
          IN  /\ isDrawing' = TRUE
              /\ lastPoint' = p
              /\ tool = "splatter" => calls' = <<PointCall("drawSplatter", p)>>
              /\ tool = "drip" => calls' = <<PointCall("drawDrip", p)>>
              /\ tool = "brush" => calls' = <<>> /\ canvas' = canvas
              /\ (tool # "brush" /\ Ready)
                   => \A q \in Shown(canvas', {p}) : canvas'.pixels[q] = color]_vars

C4_Witness ==
  /\ event.type \in StartTypes
  /\ isDrawing
  /\ tool = "drip"
  /\ Len(calls) = 1 /\ calls[1].drawn
  /\ \E q \in Shown(canvas, {lastPoint}) : canvas.pixels[q] = color

PointerTypes == StartTypes \cup MoveTypes \cup EndTypes
Uniform(pixels, c) == \A p \in DOMAIN pixels : pixels[p] = c

\* C5: save() returns null as long as the surface has not been configured
\* (rendering context not initialised) and returns an image payload only
\* once it has been.
C5_SaveNullUntilConfigured ==
  event.type = "save" => (result # NULL <=> Ready)

\* C6: on a configured surface, clear() immediately followed by save()
\* yields a snapshot whose every pixel is the background colour.
C6_ClearThenSaveUniform ==
  [][(Ready /\ event.type = "clear" /\ event'.type = "save")
       => /\ result' # NULL
          /\ Uniform(result'.pixels, Background)]_vars

\* C7: after every (re)configuration of the surface the buffer has the
\* new size and is background-coloured all over, whatever was drawn before.
C7_ResizeRepaintsBackground ==
  [][(event'.type = "setup" \/ (event'.type = "mount" /\ ~crashed'))
       => /\ canvas'.style = canvasSize
          /\ DOMAIN canvas'.pixels =
               Cells(canvasSize.width * Multiplier, canvasSize.height * Multiplier)
          /\ Uniform(canvas'.pixels, Background)]_vars

C7_Witness ==
  /\ event.type = "setup"
  /\ isDrawing /\ lastPoint # NULL
  /\ canvas.style # InitialCanvasSize
  /\ Uniform(canvas.pixels, Background)

\* C8 as stated: while the surface is not ready, start, move, end and
\* clear change no state.
C8_UnreadyNoOp ==
  [][(~Ready /\ event'.type \in PointerTypes \cup {"clear"})
       => UNCHANGED <<isDrawing, lastPoint, canvas, contextRef>>]_vars

\* C8 amended: while the surface is not ready, clear() and the draw
\* algorithms are no-ops, so that no start, move, end or clear changes the
\* surface or raises an error; start, move and end still make their
\* session transitions.
C8_UnreadyNoRender ==
  [][(~Ready /\ event'.type \in PointerTypes \cup {"clear"})
       => /\ UNCHANGED <<canvas, contextRef, canvasRef, crashed>>
          /\ \A i \in DOMAIN calls' : ~calls'[i].drawn
          /\ event'.type \in StartTypes
               => isDrawing' /\ lastPoint' = Normalized(event')
          /\ event'.type \in EndTypes => ~isDrawing' /\ lastPoint' = NULL]_vars

C8_Witness ==
  /\ ~Ready
  /\ event.type \in StartTypes
  /\ tool = "splatter"
  /\ isDrawing
  /\ Len(calls) = 1 /\ ~calls[1].drawn
  /\ canvas = NewCanvas

\* C9: every draw call made by a start or move event uses the color and
\* brushSize current at that event, also when they were changed during the
\* session, and pointer events never modify color, brushSize or tool.
C9_CurrentConfig ==
  [][/\ \A i \in DOMAIN calls' :
          IF calls'[i].fn = "drawBrushStroke"
          THEN calls'[i].strokeStyle = color /\ calls'[i].lineWidth = brushSize
          ELSE calls'[i].fillStyle = color /\ calls'[i].size = brushSize
     /\ event'.type \in PointerTypes => UNCHANGED <<color, brushSize, tool>>
     /\ \A i \in DOMAIN calls' :
          calls'[i].drawn
            => \A q \in Shown(canvas', {lastPoint'}) : canvas'.pixels[q] = color]_vars

C9_Witness ==
  /\ configChanged
  /\ event.type \in MoveTypes
  /\ Len(calls) = 1 /\ calls[1].fn = "drawBrushStroke" /\ calls[1].drawn
  /\ calls[1].strokeStyle = "#457b9d"
  /\ calls[1].lineWidth = 4

\* C10: at startup an absent or unparsable persisted list is treated as
\* the empty list: loading finishes with an empty in-memory list and no
\* error.
C10_MalformedStoredIsEmpty ==
  (event.type = "mount" /\ (stored = NULL \/ ~JSONparse(stored.text).ok))
    => /\ ~crashed
       /\ isLoaded
       /\ savedArtworks = <<>>

\* C11: every invocation of drawSplatter that draws (the context is
\* initialised) emits n droplets with 8 <= n <= 19, one per iteration and
\* n of them when it returns, and the centre of every droplet lies within
\* distance brushSize * 3 of the point of the invocation, for every outcome
\* of Math.random().
C11_SplatterDroplets ==
  (frame # NULL /\ frame.fn = "drawSplatter" /\ frame.ctx # NULL)
    => /\ frame.numDroplets \in 8..19
       /\ frame.i \in 0..frame.numDroplets
       /\ frame.returned <=> frame.i = frame.numDroplets
       /\ frame.droplet # NULL
            => frame.droplet.dx * frame.droplet.dx
                 + frame.droplet.dy * frame.droplet.dy
               <= (Num(brushSize) * 3) * (Num(brushSize) * 3)

C11_Witness ==
  /\ frame # NULL /\ frame.fn = "drawSplatter" /\ frame.ctx # NULL
  /\ frame.returned
  /\ frame.numDroplets = 19 /\ frame.i = 19
  /\ brushSize = 12
  /\ frame.droplet.dy > Num(brushSize) * 2

\* C12: every invocation of drawDrip that draws makes a blob of radius r
\* with brushSize * 0.5 <= r < brushSize and a taper of length L with
\* 40 <= L < 120, for every outcome of Math.random().
C12_DripRanges ==
  (frame # NULL /\ frame.fn = "drawDrip" /\ frame.ctx # NULL)
    => /\ Mul(Num(brushSize), Half) <= frame.dripWidth
       /\ frame.dripWidth < Num(brushSize)
       /\ Num(40) <= frame.dripLength
       /\ frame.dripLength < Num(120)

\* C13: once the surface has been configured, the buffer has the logical
\* (CSS) size of the surface times the multiplier 2 in both dimensions and
\* the transform of the context is the scale 2 exactly, however many times
\* the surface was configured.
C13_PhysicalIsLogicalTimesTwo ==
  Ready
    => /\ canvas.width = canvas.style.width * Multiplier
       /\ canvas.height = canvas.style.height * Multiplier
       /\ DOMAIN canvas.pixels = Cells(canvas.width, canvas.height)
       /\ canvas.scale = Multiplier

C13_Witness ==
  /\ Ready
  /\ event.type = "setup"
  /\ canvas.style.width = 1
  /\ canvas.width = Multiplier
  /\ canvas.scale = Multiplier

\* C14: clear() is idempotent: in the state a clear() leaves, one more
\* clear() changes nothing of the buffer, and clear() changes neither the
\* size of the surface nor the session state.
C14_ClearIdempotent ==
  [][event'.type = "clear"
       => /\ clearCanvas(canvas') = canvas'
          /\ canvas'.width = canvas.width /\ canvas'.height = canvas.height
          /\ canvas'.style = canvas.style /\ canvas'.scale = canvas.scale
          /\ UNCHANGED <<canvasSize, contextRef, isDrawing, lastPoint>>]_vars

C14_Witness ==
  /\ event.type = "clear"
  /\ Ready
  /\ isDrawing /\ lastPoint # NULL
  /\ effects = "none"
  /\ Uniform(canvas.pixels, Background)

\* the list the 'artworks' slot holds
Persisted == IF Truthy(stored) THEN JSONparse(stored.text) ELSE Ok(<<>>)

\* C15: after start-up, whatever saves and deletes were made, the list
\* persisted under 'artworks' is the in-memory list; a save appends its
\* payload at the end, a save with a null snapshot changes neither list,
\* and delete(i) removes the element at index i alone and keeps the others
\* in order.
C15_PersistedIsInMemory ==
  [][/\ (isLoaded' /\ ~crashed') => Persisted' = Ok(savedArtworks')
     /\ (isLoaded /\ event'.type = "handleSave")
          => IF event'.dataUrl = NULL
             THEN UNCHANGED <<savedArtworks, stored>>
             ELSE savedArtworks' = savedArtworks \o <<event'.dataUrl.url>>
     /\ (isLoaded /\ event'.type = "handleDeleteArtwork")
          => LET i == event'.index + 1
             IN  /\ Len(savedArtworks') = Len(savedArtworks) - 1
                 /\ \A j \in 1..Len(savedArtworks') :
                      savedArtworks'[j] =
                        IF j < i THEN savedArtworks[j] ELSE savedArtworks[j + 1]]_vars

C15_Witness ==
  /\ isLoaded /\ ~crashed
  /\ event.type = "handleDeleteArtwork"
  /\ event.index = 0
  /\ savedArtworks = <<"b">>
  /\ stored = [text |-> <<"[", Quote, "b", Quote, "]">>]

\* C16: the session state (isDrawing, lastPoint) is changed by start, move
\* and end events only: a resize, a (re)configuration of the surface,
\* clear(), save() and a change of color, tool or brushSize leave both as
\* they are, also in the middle of a Drawing session.
C16_SessionFrame ==
  [][/\ event'.type \in {"mount", "resize", "setup", "clear", "save", "config"}
          => UNCHANGED <<isDrawing, lastPoint>>
     /\ (isDrawing' # isDrawing \/ lastPoint' # lastPoint)
          => event'.type \in PointerTypes]_vars

C16_Witness ==
  /\ event.type = "setup"
  /\ isDrawing
  /\ lastPoint = [x |-> 1, y |-> 0]
  /\ tool = "drip"
  /\ canvasSize.width = 1

\* C17: every move received while Drawing sets lastPoint to the point of
\* that event, with every tool and whether or not anything was rendered.
C17_MoveSetsLastPoint ==
  [][(isDrawing /\ event'.type \in MoveTypes)
       => /\ lastPoint' = Normalized(event')
          /\ isDrawing']_vars

C17_Witness ==
  /\ event.type \in MoveTypes
  /\ isDrawing
  /\ tool = "splatter"
  /\ calls = <<>>
  /\ lastPoint = Normalized(event)
  /\ lastPoint.x = 1
  /\ Painted = {}

\* C18: an interaction-end or pointer-leave during Drawing makes the
\* session Idle and renders nothing: no draw call is made and the buffer is
\* the same before and after.
C18_EndRendersNothing ==
  [][(isDrawing /\ event'.type \in EndTypes)
       => /\ ~isDrawing'
          /\ lastPoint' = NULL
          /\ calls' = <<>>
          /\ canvas' = canvas]_vars

C18_Witness ==
  /\ event.type = "mouseleave"
  /\ ~isDrawing /\ lastPoint = NULL
  /\ tool = "brush"
  /\ Ready
  /\ \E p \in DOMAIN canvas.pixels : canvas.pixels[p] = color
  /\ \E p \in DOMAIN canvas.pixels : canvas.pixels[p] = Background

\* the paint function of a tool
AlgorithmOf(t) ==
  IF t = "brush" THEN "drawBrushStroke"
  ELSE IF t = "splatter" THEN "drawSplatter" ELSE "drawDrip"

\* C19: a start or move event makes at most one draw call, and only of
\* the algorithm of the tool selected at the event: a brush move while
\* Drawing makes exactly one drawBrushStroke, a splatter or drip event makes
\* no call or one call at the point of the event, a brush start makes none.
C19_OneCallOfSelectedTool ==
  [][event'.type \in StartTypes \cup MoveTypes
       => /\ Len(calls') <= 1
          /\ tool' = tool
          /\ \A i \in DOMAIN calls' : calls'[i].fn = AlgorithmOf(tool)
          /\ (tool = "brush" /\ isDrawing /\ event'.type \in MoveTypes)
               => Len(calls') = 1
          /\ (tool = "brush" /\ event'.type \in StartTypes) => calls' = <<>>
          /\ tool # "brush"
               => \A i \in DOMAIN calls' :
                    /\ calls'[i].x = Normalized(event').x
                    /\ calls'[i].y = Normalized(event').y]_vars

C19_Witness ==
  /\ event.type \in MoveTypes
  /\ tool = "drip"
  /\ Len(calls) = 1
  /\ calls[1].fn = "drawDrip" /\ calls[1].drawn
  /\ calls[1].x = 1
  /\ lastPoint = [x |-> 1, y |-> 0]

\* C20: one session per surface under every interleaving of mouse and
\* touch events: a start received while Drawing leaves the session active,
\* and an end leaves it active as long as another started interaction is
\* still in progress.
C20_EndWaitsForOtherPointer ==
  [][/\ (isDrawing /\ event'.type \in StartTypes) => isDrawing'
     /\ (isDrawing /\ event'.type \in EndTypes /\ pressed' # {}) => isDrawing']_vars

\* C21: in every state the session is active exactly when lastPoint is
\* set, so that the `lastPoint.current` test of the brush branch of
\* handleMove never suppresses a segment while Drawing.
C21_ActiveIffLastPoint ==
  isDrawing <=> lastPoint # NULL

C21_Witness ==
  /\ isDrawing /\ lastPoint # NULL
  /\ tool = "brush"
  /\ event.type = "touchmove"
  /\ Len(calls) = 1 /\ calls[1].fn = "drawBrushStroke"
  /\ calls[1].end = lastPoint
  /\ pressed = {"touch"}

\* C22: a window resize that measures the size the surface already has
\* leaves the buffer as it is: the setup effect that follows such a resize
\* changes no pixel.
C22_SameSizeKeepsBuffer ==
  [][(event.type = "resize" /\ event'.type = "setup" /\ Ready
        /\ canvas.style = canvasSize)
       => canvas'.pixels = canvas.pixels]_vars

\* C23: the toolbar never clears on a single click: onClear is invoked
\* exactly on the clicks made while the confirmation is armed, armed by an
\* earlier click and not disarmed since; the invocation clears the surface
\* and leaves the confirmation disarmed; a timer leaves the surface alone.
C23_ClearNeedsArmedClick ==
  [][/\ event'.type = "handleClear"
          => IF event'.onClear
             THEN /\ showClearConfirm /\ armedFor # NULL
                  /\ ~showClearConfirm'
                  /\ canvas' = clearCanvas(canvas)
             ELSE /\ ~showClearConfirm /\ showClearConfirm'
                  /\ canvas' = canvas
     /\ (event'.type \in {"tick", "timeout"}) => canvas' = canvas
     /\ showClearConfirm' <=> armedFor' # NULL]_vars

C23_Witness ==
  /\ event.type = "handleClear" /\ event.onClear
  /\ ~showClearConfirm
  /\ Len(timers) = 1 /\ timers[1].left = 1
  /\ Uniform(canvas.pixels, Background)

\* C24: once armed, the clear confirmation stays armed until a confirming
\* click or until 3 seconds after the click that armed it: it is disarmed
\* by a confirming click or by a timer that runs 3 seconds after that
\* arming click, never by a timer of an earlier arming.
C24_ArmedForThreeSeconds ==
  [][(showClearConfirm /\ ~showClearConfirm')
       => \/ event'.type = "handleClear" /\ event'.onClear
          \/ /\ event'.type = "timeout"
             /\ armedFor = [ticks |-> ConfirmDelay]]_vars

\* C25: in the gallery onDelete(i) is invoked only by a click on the delete
\* button of index i while the pending confirmation is for i, which the
\* previous delete click, on the same button of the same list, set; a click
\* on another index deletes nothing and re-targets the confirmation; and
\* nothing else removes an artwork.
C25_DeleteNeedsSameIndexTwice ==
  [][/\ event'.type = "handleDelete"
          => IF event'.onDelete
             THEN /\ deleteConfirm = [index |-> event'.index]
                  /\ prevClick # NULL
                  /\ prevClick.index = event'.index
                  /\ prevClick.artworks = savedArtworks
                  /\ savedArtworks' = filterIndex(savedArtworks, event'.index)
                  /\ deleteConfirm' = NULL
             ELSE /\ deleteConfirm # [index |-> event'.index]
                  /\ UNCHANGED <<savedArtworks, stored>>
                  /\ deleteConfirm' = [index |-> event'.index]
     /\ savedArtworks' # savedArtworks
          => event'.type = "handleDelete" /\ event'.onDelete]_vars

C25_Witness ==
  /\ event.type = "handleDelete" /\ event.onDelete
  /\ event.index = 1
  /\ savedArtworks = <<"a", "b">>
  /\ deleteConfirm = NULL
  /\ Len(timers) = 2

====
